---- MODULE Spec2Model ----
(***************************************************************************)
(* rustdoc's token classifier (src/librustdoc/html/highlight.rs):          *)
(* Classifier::highlight pulls (TokenKind, text) pairs from a peekable     *)
(* token stream and pushes Highlight events into a sink.  One behaviour of *)
(* the model is one call of highlight on one lexed source text.            *)
(***************************************************************************)
EXTENDS Integers, Sequences, FiniteSets, TLC

VARIABLES
    src,                   \* the lexed input: the items TokenIter yields for the source text
    edition,               \* Classifier::edition
    tokens,                \* Classifier::tokens: the items not yet pulled from the stream
    in_attribute,          \* Classifier::in_attribute
    in_macro,              \* Classifier::in_macro
    in_macro_nonterminal,  \* Classifier::in_macro_nonterminal
    sink,                  \* the Highlight events pushed into the sink so far, in order
    calls,                 \* history: one record per call of advance, in order
    pc,                    \* "loop" inside highlight's while loop, "done" once it has
                           \* returned, "panic" once it has panicked
    earlier,               \* history: one record per call of write_code that has returned
                           \* before the current one, in order
    out,                   \* the Buffer that string, enter_span and exit_span write to
    format_spec,           \* lower_f_string_format_spec's argument: None or Some(its characters)
    cursor,                \* Parser::cursor: the characters of the format spec not yet taken
    options,               \* lower_f_string_format_spec's local `options`
    format_trait,          \* the FormatTrait returned, None before the return
    integer,               \* consume_integer's locals cur, found, overflow while it runs
    integers               \* history: one record per call of consume_integer that has ended

\* The state of the highlighter and its renderer.
hvars == <<src, edition, tokens, in_attribute, in_macro, in_macro_nonterminal, sink, calls,
           earlier, out>>
\* The state of the format-spec lowering.
fvars == <<format_spec, cursor, options, format_trait, integer, integers>>

vars == <<src, edition, tokens, in_attribute, in_macro, in_macro_nonterminal, sink, calls, pc,
          earlier, out, format_spec, cursor, options, format_trait, integer, integers>>

(***************************************************************************)
(* Bounds of the model.                                                    *)
(***************************************************************************)
\* The longest input over the core alphabet.
MaxLen == 3
\* The longest input over the attribute alphabet.
MaxAttrLen == 5
\* The most calls of write_code in a row.
MaxCalls == 3
\* The most events handed to the renderer in a row.
MaxEvents == 2
\* The longest format spec over the format alphabet.
MaxSpecLen == 3
\* The longest format spec made of digits only.
MaxDigits == 4
\* The width of usize in bits, scaled down from 64 so that a few digits overflow it.
UsizeBits == 4

(***************************************************************************)
(* Data types.                                                             *)
(***************************************************************************)
\* Option<Class>::None
NoClass == "None"

\* enum Class.
Class == {"Comment", "DocComment", "Attribute", "KeyWord", "RefKeyWord", "Self_", "Op",
          "Macro", "MacroNonTerminal", "String", "Number", "Bool", "Ident", "Lifetime",
          "PreludeTy", "PreludeVal", "QuestionMark"}

\* enum Highlight.  The span events carry no text.
Token(text, class) == [type |-> "Token", text |-> text, class |-> class]
EnterSpan(class) == [type |-> "EnterSpan", text |-> "", class |-> class]
ExitSpan == [type |-> "ExitSpan", text |-> "", class |-> NoClass]

\* rustc_lexer::TokenKind: a name and, for comments and literals, the payload the
\* classifier reads (doc_style, resp. the LiteralKind).
Kind(name) == [name |-> name, data |-> "-"]
KindWith(name, data) == [name |-> name, data |-> data]

\* Option<TokenKind>::None, the lookahead at the end of the stream.
NoKind == Kind("None")

\* An item of TokenIter: (TokenKind, &str).
Item(kind, text) == [kind |-> kind, text |-> text]

\* rustc_span::edition::Edition (the editions of this compiler).
Edition == {"2015", "2018"}

\* Symbol::is_reserved: the special, used and unused keywords; async, await, dyn and
\* try are reserved from edition 2018 on.
ReservedAlways == {"if", "fn", "crate", "self", "Self", "true", "false", "ref", "mut", "let"}
Reserved2018 == {"async", "await", "dyn", "try"}
is_reserved(text, ed) ==
    \/ text \in ReservedAlways
    \/ ed # "2015" /\ text \in Reserved2018

(***************************************************************************)
(* The token stream: Peekable<TokenIter>.                                  *)
(***************************************************************************)
\* The classifier as a record, so that the arms of advance can be written as
\* operators from a classifier to a classifier.
Self(toks, ia, im, imn, ed) ==
    [tokens |-> toks, in_attribute |-> ia, in_macro |-> im,
     in_macro_nonterminal |-> imn, edition |-> ed]

\* self.tokens.next(): drops the front item; an exhausted stream stays exhausted.
tokens_next(self) ==
    IF self.tokens = <<>> THEN self ELSE [self EXCEPT !.tokens = Tail(@)]

\* Classifier::peek: the kind of the front item, the stream unchanged.
peek(self) ==
    IF self.tokens = <<>> THEN NoKind ELSE Head(self.tokens).kind

(***************************************************************************)
(* Classifier::advance, arm by arm.  Every arm maps the classifier (whose  *)
(* stream no longer holds the current token) to the classifier after the   *)
(* step and the events the step pushes into the sink.                      *)
(***************************************************************************)
Step(self, pushed) == [self |-> self, out |-> pushed, panic |-> FALSE]

\* A step that panics (Option::unwrap on None) pushes nothing more.
Panic(self) == [self |-> self, out |-> <<>>, panic |-> TRUE]

\* no_highlight: the token's text with no class.
no_highlight(self, text) == Step(self, <<Token(text, NoClass)>>)

\* WhitespaceArm giving the blanks inside an attribute the attribute's class.
WhitespaceArmInAttribute(self, text) ==
    IF self.in_attribute THEN Step(self, <<Token(text, "Attribute")>>)
    ELSE no_highlight(self, text)

\* TokenKind::Whitespace => return no_highlight(sink)
WhitespaceArm(self, text) == no_highlight(self, text)

\* The tail of advance: anything that did not return early is one classified token.
single(self, text, class) == Step(self, <<Token(text, class)>>)

\* TokenKind::LineComment { doc_style } | TokenKind::BlockComment { doc_style, .. }
CommentArm(self, token, text) ==
    single(self, text, IF token.data # "None" THEN "DocComment" ELSE "Comment")

\* BangMacroArm leaving in_macro set.
BangMacroArmKeepsFlag(self, text) == single(self, text, "Macro")

\* TokenKind::Bang if self.in_macro
BangMacroArm(self, text) ==
    single([self EXCEPT !.in_macro = FALSE], text, "Macro")

\* StarArm whose look at the next token pulls it from the stream.
StarArmPeekTakes(self, text, lookahead) ==
    single(tokens_next(self), text,
           IF lookahead = Kind("Whitespace") THEN "Op" ELSE "RefKeyWord")

\* StarArm with the end of the input taken for a space.
StarArmEndIsOp(self, text, lookahead) ==
    single(self, text,
           IF lookahead = Kind("Whitespace") \/ lookahead = NoKind THEN "Op" ELSE "RefKeyWord")

\* TokenKind::Star
StarArm(self, text, lookahead) ==
    single(self, text, IF lookahead = Kind("Whitespace") THEN "Op" ELSE "RefKeyWord")

\* AndArm peeking at the second token of `&&` and `&=` without taking it.
AndArmKeepsSecond(self, text, lookahead) ==
    IF lookahead = Kind("And")
    THEN Step(self, <<Token("&&", "Op")>>)
    ELSE IF lookahead = Kind("Eq")
    THEN Step(self, <<Token("&=", "Op")>>)
    ELSE IF lookahead = Kind("Whitespace")
    THEN single(self, text, "Op")
    ELSE single(self, text, "RefKeyWord")

\* AndArm with the merged events carrying the text of the current token only.
AndArmLosesText(self, text, lookahead) ==
    IF lookahead = Kind("And") \/ lookahead = Kind("Eq")
    THEN Step(tokens_next(self), <<Token(text, "Op")>>)
    ELSE IF lookahead = Kind("Whitespace")
    THEN single(self, text, "Op")
    ELSE single(self, text, "RefKeyWord")

\* TokenKind::And
AndArm(self, text, lookahead) ==
    IF lookahead = Kind("And")
    THEN Step(tokens_next(self), <<Token("&&", "Op")>>)
    ELSE IF lookahead = Kind("Eq")
    THEN Step(tokens_next(self), <<Token("&=", "Op")>>)
    ELSE IF lookahead = Kind("Whitespace")
    THEN single(self, text, "Op")
    ELSE single(self, text, "RefKeyWord")

\* TokenKind::Dollar
DollarArm(self, text, lookahead) ==
    IF lookahead = Kind("Ident")
    THEN single([self EXCEPT !.in_macro_nonterminal = TRUE], text, "MacroNonTerminal")
    ELSE no_highlight(self, text)

\* PoundArm opening the span after the `#` it has already pushed.
PoundArmSpanAfterPound(self, text, lookahead) ==
    IF lookahead = Kind("Bang")
    THEN LET after == tokens_next(self)
         IN  IF peek(after) = Kind("OpenBracket")
             THEN Step([after EXCEPT !.in_attribute = TRUE],
                       <<Token("#", NoClass), EnterSpan("Attribute"), Token("!", NoClass)>>)
             ELSE Step(after, <<Token("#", NoClass), Token("!", NoClass)>>)
    ELSE IF lookahead = Kind("OpenBracket")
    THEN Step([self EXCEPT !.in_attribute = TRUE],
              <<Token(text, NoClass), EnterSpan("Attribute")>>)
    ELSE no_highlight(self, text)

\* PoundArm looking past the `!` without taking it from the stream.
PoundArmBangNotConsumed(self, text, lookahead) ==
    IF lookahead = Kind("Bang")
    THEN IF peek(tokens_next(self)) = Kind("OpenBracket")
         THEN Step([self EXCEPT !.in_attribute = TRUE],
                   <<EnterSpan("Attribute"), Token("#", NoClass), Token("!", NoClass)>>)
         ELSE Step(self, <<Token("#", NoClass), Token("!", NoClass)>>)
    ELSE IF lookahead = Kind("OpenBracket")
    THEN Step([self EXCEPT !.in_attribute = TRUE],
              <<EnterSpan("Attribute"), Token(text, NoClass)>>)
    ELSE no_highlight(self, text)

\* PoundArm taking the `!` only when a `[` follows it.
PoundArmLeavesBang(self, text, lookahead) ==
    IF lookahead = Kind("Bang") /\ peek(tokens_next(self)) = Kind("OpenBracket")
    THEN Step([tokens_next(self) EXCEPT !.in_attribute = TRUE],
              <<EnterSpan("Attribute"), Token("#", NoClass), Token("!", NoClass)>>)
    ELSE IF lookahead = Kind("OpenBracket")
    THEN Step([self EXCEPT !.in_attribute = TRUE],
              <<EnterSpan("Attribute"), Token(text, NoClass)>>)
    ELSE no_highlight(self, text)

\* PoundArm taking the `[` after the `!` with next().unwrap() instead of peeking at it.
PoundArmUnwrapsBracket(self, text, lookahead) ==
    IF lookahead = Kind("Bang")
    THEN LET after == tokens_next(self)
         IN  IF after.tokens = <<>>
             THEN Panic(after)
             ELSE IF peek(after) = Kind("OpenBracket")
             THEN Step([after EXCEPT !.in_attribute = TRUE],
                       <<EnterSpan("Attribute"), Token("#", NoClass), Token("!", NoClass)>>)
             ELSE Step(after, <<Token("#", NoClass), Token("!", NoClass)>>)
    ELSE IF lookahead = Kind("OpenBracket")
    THEN Step([self EXCEPT !.in_attribute = TRUE],
              <<EnterSpan("Attribute"), Token(text, NoClass)>>)
    ELSE no_highlight(self, text)

\* TokenKind::Pound
PoundArm(self, text, lookahead) ==
    IF lookahead = Kind("Bang")
    THEN \* Case 1: #![inner_attribute]
         LET after == tokens_next(self)
         IN  IF self.tokens = <<>>
             THEN \* self.tokens.next().unwrap()
                  Panic(self)
             ELSE IF peek(after) = Kind("OpenBracket")
             THEN Step([after EXCEPT !.in_attribute = TRUE],
                       <<EnterSpan("Attribute"), Token("#", NoClass), Token("!", NoClass)>>)
             ELSE Step(after, <<Token("#", NoClass), Token("!", NoClass)>>)
    ELSE IF lookahead = Kind("OpenBracket")
    THEN \* Case 2: #[outer_attribute]
         Step([self EXCEPT !.in_attribute = TRUE],
              <<EnterSpan("Attribute"), Token(text, NoClass)>>)
    ELSE no_highlight(self, text)

\* CloseBracketArm closing a span on every `]`.
CloseBracketArmAlwaysExits(self, text) ==
    Step([self EXCEPT !.in_attribute = FALSE], <<Token("]", NoClass), ExitSpan>>)

\* CloseBracketArm leaving the attribute without closing its span.
CloseBracketArmNoExit(self, text) ==
    IF self.in_attribute
    THEN Step([self EXCEPT !.in_attribute = FALSE], <<Token("]", NoClass)>>)
    ELSE no_highlight(self, text)

\* TokenKind::CloseBracket
CloseBracketArm(self, text) ==
    IF self.in_attribute
    THEN Step([self EXCEPT !.in_attribute = FALSE], <<Token("]", NoClass), ExitSpan>>)
    ELSE no_highlight(self, text)

\* TokenKind::Literal { kind, .. }
LiteralArm(self, token, text) ==
    IF token.data \in {"Byte", "Char", "Str", "ByteStr", "RawStr", "RawByteStr", "FStr"}
    THEN single(self, text, "String")
    ELSE single(self, text, "Number")

\* MacroNameArm without the note for the `!` that follows.
MacroNameArmForgetsFlag(self, text) ==
    single(self, text, "Macro")

\* TokenKind::Ident | TokenKind::RawIdent if lookahead == Some(TokenKind::Bang)
MacroNameArm(self, text) ==
    single([self EXCEPT !.in_macro = TRUE], text, "Macro")

\* IdentArm asking for the `$` before it looks at the text.
IdentArmFlagFirst(self, text) ==
    IF self.in_macro_nonterminal
    THEN single([self EXCEPT !.in_macro_nonterminal = FALSE], text, "MacroNonTerminal")
    ELSE IF text \in {"ref", "mut"} THEN single(self, text, "RefKeyWord")
    ELSE IF text \in {"self", "Self"} THEN single(self, text, "Self_")
    ELSE IF text \in {"false", "true"} THEN single(self, text, "Bool")
    ELSE IF text \in {"Option", "Result"} THEN single(self, text, "PreludeTy")
    ELSE IF text \in {"Some", "None", "Ok", "Err"} THEN single(self, text, "PreludeVal")
    ELSE IF is_reserved(text, self.edition) THEN single(self, text, "KeyWord")
    ELSE single(self, text, "Ident")

\* TokenKind::Ident
IdentArm(self, text) ==
    IF text \in {"ref", "mut"} THEN single(self, text, "RefKeyWord")
    ELSE IF text \in {"self", "Self"} THEN single(self, text, "Self_")
    ELSE IF text \in {"false", "true"} THEN single(self, text, "Bool")
    ELSE IF text \in {"Option", "Result"} THEN single(self, text, "PreludeTy")
    ELSE IF text \in {"Some", "None", "Ok", "Err"} THEN single(self, text, "PreludeVal")
    ELSE IF is_reserved(text, self.edition) THEN single(self, text, "KeyWord")
    ELSE IF self.in_macro_nonterminal
    THEN single([self EXCEPT !.in_macro_nonterminal = FALSE], text, "MacroNonTerminal")
    ELSE single(self, text, "Ident")

\* The kinds of the "Operators" and the "Miscellaneous, no highlighting" arms.
OperatorKinds ==
    {"Minus", "Plus", "Or", "Slash", "Caret", "Percent", "Bang", "Eq", "Lt", "Gt"}
MiscKinds ==
    {"Dot", "Semi", "Comma", "OpenParen", "CloseParen", "OpenBrace", "CloseBrace",
     "OpenBracket", "At", "Tilde", "Colon", "Unknown"}

\* Classifier::advance: the match on `token`, its arms tried in source order.
advance(self, token, text) ==
    LET lookahead == peek(self)
        k == token.name
    IN  IF k = "Whitespace" THEN WhitespaceArm(self, text)
        ELSE IF k \in {"LineComment", "BlockComment"} THEN CommentArm(self, token, text)
        ELSE IF k = "Bang" /\ self.in_macro THEN BangMacroArm(self, text)
        ELSE IF k = "Star" THEN StarArm(self, text, lookahead)
        ELSE IF k = "And" THEN AndArm(self, text, lookahead)
        ELSE IF k \in OperatorKinds THEN single(self, text, "Op")
        ELSE IF k \in MiscKinds THEN no_highlight(self, text)
        ELSE IF k = "Question" THEN single(self, text, "QuestionMark")
        ELSE IF k = "Dollar" THEN DollarArm(self, text, lookahead)
        ELSE IF k = "Pound" THEN PoundArm(self, text, lookahead)
        ELSE IF k = "CloseBracket" THEN CloseBracketArm(self, text)
        ELSE IF k = "Literal" THEN LiteralArm(self, token, text)
        ELSE IF k \in {"Ident", "RawIdent"} /\ lookahead = Kind("Bang")
        THEN MacroNameArm(self, text)
        ELSE IF k = "Ident" THEN IdentArm(self, text)
        ELSE IF k = "RawIdent" THEN single(self, text, "Ident")
        ELSE \* TokenKind::Lifetime { .. }, the last kind of the enum
             single(self, text, "Lifetime")

(***************************************************************************)
(* The inputs: what TokenIter yields for a source text.                    *)
(***************************************************************************)
Punct(name, text) == Item(Kind(name), text)
Ident(text) == Item(Kind("Ident"), text)
Lit(kind, text) == Item(KindWith("Literal", kind), text)
Ws == Item(Kind("Whitespace"), " ")

\* A character the lexer knows no token for.
UnknownItem == Punct("Unknown", "\\")

\* The tokens the attribute, macro and operator rules look at.
CoreAlphabet ==
    {Ws, Punct("Bang", "!"), Punct("Star", "*"), Punct("And", "&"), Punct("Eq", "="),
     Punct("Dollar", "$"), Punct("Pound", "#"), Punct("OpenBracket", "["),
     Punct("CloseBracket", "]"), Ident("x"), Ident("self"), Item(Kind("RawIdent"), "r#x")}

\* The tokens that open and close attributes, for longer inputs.
AttrAlphabet ==
    {Punct("Pound", "#"), Punct("Bang", "!"), Punct("OpenBracket", "["),
     Punct("CloseBracket", "]"), Ident("x")}

\* One item at least of every TokenKind, every payload the classifier reads and every
\* row of the identifier table.
FullAlphabet ==
    CoreAlphabet \cup
    {Item(KindWith("LineComment", "None"), "//c"),
     Item(KindWith("LineComment", "Outer"), "///d"),
     Item(KindWith("BlockComment", "None"), "/*c*/"),
     Item(KindWith("BlockComment", "Inner"), "/*!d*/"),
     Punct("Minus", "-"), Punct("Plus", "+"), Punct("Or", "|"), Punct("Slash", "/"),
     Punct("Caret", "^"), Punct("Percent", "%"), Punct("Lt", "<"), Punct("Gt", ">"),
     Punct("Dot", "."), Punct("Semi", ";"), Punct("Comma", ","),
     Punct("OpenParen", "("), Punct("CloseParen", ")"),
     Punct("OpenBrace", "{"), Punct("CloseBrace", "}"),
     Punct("At", "@"), Punct("Tilde", "~"), Punct("Colon", ":"), UnknownItem,
     Punct("Question", "?"),
     Lit("Byte", "b'c'"), Lit("Char", "'c'"), Lit("Str", "\"s\""), Lit("ByteStr", "b\"s\""),
     Lit("RawStr", "r\"s\""), Lit("RawByteStr", "br\"s\""), Lit("FStr", "f\"s\""),
     Lit("Float", "1.5"), Lit("Int", "1"),
     Ident("mut"), Ident("Self"), Ident("true"), Ident("Option"), Ident("Some"),
     Ident("if"), Ident("crate"), Ident("async"), Ident("foo"),
     Item(Kind("Lifetime"), "'a")}

\* The lexer takes the longest lexeme: item b cannot directly follow item a when the
\* text of a followed by the text of b would lex differently.
Glues(a, b) ==
    LET an == a.kind.name
        bn == b.kind.name
        wordy(i) == \/ i.kind.name \in {"Ident", "RawIdent", "Lifetime"}
                    \/ i.kind.name = "Literal"
        letterFirst(i) ==
            \/ i.kind.name \in {"Ident", "RawIdent"}
            \/ i.kind.name = "Literal"
               /\ i.kind.data \in {"Byte", "ByteStr", "RawStr", "RawByteStr", "FStr"}
        number(i) == i.kind.name = "Literal" /\ i.kind.data \in {"Int", "Float"}
    IN  \/ an = "Whitespace" /\ bn = "Whitespace"
        \/ an = "LineComment"
        \/ an = "Slash" /\ bn \in {"Slash", "Star"}
        \/ wordy(a) /\ letterFirst(b)
        \/ (an \in {"Ident", "RawIdent", "Lifetime"} \/ number(a)) /\ number(b)
        \/ number(a) /\ bn = "Dot"
        \/ an = "Lifetime" /\ b.kind = KindWith("Literal", "Char")

WellLexed(toks) ==
    \A i \in 1..(Len(toks) - 1) : ~Glues(toks[i], toks[i + 1])

SeqsUpTo(S, n) == UNION {[1..k -> S] : k \in 0..n}

\* "#[derive(Debug)]", lexed.
DeriveDebug ==
    <<Punct("Pound", "#"), Punct("OpenBracket", "["), Ident("derive"),
      Punct("OpenParen", "("), Ident("Debug"), Punct("CloseParen", ")"),
      Punct("CloseBracket", "]")>>

\* The source texts of the documentation's examples, lexed.
Examples ==
    {DeriveDebug,
     <<Punct("Pound", "#"), Punct("OpenBracket", "["), Ident("foo")>>,
     <<Ident("println"), Punct("Bang", "!"), Punct("OpenParen", "("), Ident("x"),
       Punct("CloseParen", ")")>>,
     <<Ident("a"), Ws, Punct("Star", "*"), Ws, Ident("b")>>,
     <<Punct("Star", "*"), Ident("b")>>,
     <<Ident("a"), Ws, Punct("And", "&"), Punct("And", "&"), Ws, Ident("b")>>,
     <<Punct("And", "&"), Ident("mut"), Ws, Ident("x")>>,
     <<Punct("Dollar", "$"), Ident("crate"), Punct("Colon", ":"), Punct("Colon", ":"),
       Ident("foo")>>}

Inputs ==
    {toks \in SeqsUpTo(CoreAlphabet, MaxLen) \cup SeqsUpTo(AttrAlphabet, MaxAttrLen)
                 \cup {<<a, b>> : a, b \in FullAlphabet} :
        WellLexed(toks)}
    \cup Examples

(***************************************************************************)
(* The format-spec parser of f-strings (rustc_ast_lowering, f_string.rs):  *)
(* values.                                                                 *)
(***************************************************************************)
\* Option<T>.
None == <<>>
Some(x) == <<x>>

\* FormatCount::Literal.
Literal(n) == [count |-> "Literal", n |-> n]

\* FormatOptions::default().
DefaultOptions ==
    [width |-> None, precision |-> None, alignment |-> None, fill |-> None, sign |-> None,
     alternate |-> FALSE, zero_pad |-> FALSE, debug_hex |-> None]

\* consume_integer's locals at its entry, with the cursor it was called on.
IntegerLocals(cur) == [running |-> TRUE, cur |-> 0, found |-> FALSE, overflow |-> FALSE,
                       start |-> cur]
\* consume_integer not running.
NoInteger == [running |-> FALSE, cur |-> 0, found |-> FALSE, overflow |-> FALSE,
              start |-> <<>>]

\* No format spec is being lowered.
NoLowering ==
    /\ format_spec = None
    /\ cursor = <<>>
    /\ options = DefaultOptions
    /\ format_trait = None
    /\ integer = NoInteger
    /\ integers = <<>>

(***************************************************************************)
(* struct Parser and its methods.                                          *)
(***************************************************************************)
\* The number of values of usize.
UsizeRange == 2 ^ UsizeBits

\* usize::overflowing_mul and usize::overflowing_add: the wrapped result and whether
\* the exact one did not fit.
overflowing_mul(a, b) == [value |-> (a * b) % UsizeRange, overflow |-> a * b >= UsizeRange]
overflowing_add(a, b) == [value |-> (a + b) % UsizeRange, overflow |-> a + b >= UsizeRange]

\* char::to_digit(10).
DecimalDigits == <<"0", "1", "2", "3", "4", "5", "6", "7", "8", "9">>
to_digit(c) ==
    IF \E d \in 1..Len(DecimalDigits) : DecimalDigits[d] = c
    THEN Some((CHOOSE d \in 1..Len(DecimalDigits) : DecimalDigits[d] = c) - 1)
    ELSE None

\* The parser as a record: the input and the characters not yet taken.
Parser(input, cur) == [input |-> input, cursor |-> cur]

\* Parser::consume_pos: takes the front character if it is c and gives its index.
consume_pos(self, c) ==
    IF self.cursor # <<>> /\ Head(self.cursor) = c
    THEN [parser |-> [self EXCEPT !.cursor = Tail(@)],
          pos |-> Some(Len(self.input) - Len(self.cursor))]
    ELSE [parser |-> self, pos |-> None]

\* Parser::consume
consume(self, c) ==
    LET r == consume_pos(self, c)
    IN  [parser |-> r.parser, ok |-> r.pos # None]

\* One iteration of consume_integer's loop on the digit i: the locals after it.
consume_digit(locals, i) ==
    LET mul == overflowing_mul(locals.cur, 10)
        add == overflowing_add(mul.value, i)
    IN  [locals EXCEPT !.overflow = @ \/ mul.overflow \/ add.overflow,
                       !.cur = add.value,
                       !.found = TRUE]

(***************************************************************************)
(* The format specs lowered.                                               *)
(***************************************************************************)
\* The characters the lowering tells apart, and one it knows nothing of.
SpecAlphabet == {"<", ">", "^", "-", "+", "#", "0", "5", ".", "x", "?", "z"}

\* Digits whose runs fit usize, overflow it, and overflow it back into range.
DigitAlphabet == {"0", "1", "6", "9"}

\* The format specs of tests/ui/f-string/formatting.rs, and the ones that take the
\* lowering to its `$` and `*` panics and through its precision and radix arms.
SpecExamples ==
    {<<"<", "5">>, <<"-", "<", "5">>, <<"^", "5">>, <<">", "5">>, <<"\\", ">", "5">>,
     <<"+">>, <<"#", "x">>, <<"0", "5">>, <<"#", "0", "1", "0", "x">>,
     <<"0", "$">>, <<".", "*">>, <<"5", ".", "1", "0", "X", "?">>, <<"-", "<", "+", "5", "o">>}

FormatSpecs ==
    {None}
    \cup {Some(s) : s \in SeqsUpTo(SpecAlphabet, MaxSpecLen) \cup SeqsUpTo(DigitAlphabet, MaxDigits)
                           \cup SpecExamples}

(***************************************************************************)
(* Classifier::new and Classifier::highlight.                              *)
(***************************************************************************)
\* write_code: Classifier::new(&src, edition), about to enter highlight's loop.
Init ==
    /\ src \in Inputs
    /\ edition \in Edition
    /\ tokens = src
    /\ in_attribute = FALSE
    /\ in_macro = FALSE
    /\ in_macro_nonterminal = FALSE
    /\ sink = <<>>
    /\ calls = <<>>
    /\ pc = "loop"
    /\ earlier = <<>>
    /\ out = ""
    /\ NoLowering

\* The three flags of a classifier.
Flags(self) ==
    [in_attribute |-> self.in_attribute, in_macro |-> self.in_macro,
     in_macro_nonterminal |-> self.in_macro_nonterminal]

\* One iteration of `while let Some((token, text)) = self.tokens.next()`.
HighlightStep ==
    /\ pc = "loop"
    /\ tokens # <<>>
    /\ LET item == Head(tokens)
           self == Self(Tail(tokens), in_attribute, in_macro, in_macro_nonterminal, edition)
           r == advance(self, item.kind, item.text)
       IN  /\ tokens' = r.self.tokens
           /\ in_attribute' = r.self.in_attribute
           /\ in_macro' = r.self.in_macro
           /\ in_macro_nonterminal' = r.self.in_macro_nonterminal
           /\ sink' = sink \o r.out
           /\ calls' = Append(calls, [at |-> Len(src) - Len(tokens) + 1,
                                      took |-> Len(tokens) - Len(r.self.tokens),
                                      before |-> Flags(self),
                                      after |-> Flags(r.self),
                                      first |-> Len(sink) + 1,
                                      count |-> Len(r.out)])
           /\ pc' = IF r.panic THEN "panic" ELSE pc
    /\ UNCHANGED <<src, edition, earlier, out>>
    /\ UNCHANGED fvars

\* HighlightReturn closing a span the input left open.
HighlightReturnClosesSpan ==
    /\ pc = "loop"
    /\ tokens = <<>>
    /\ pc' = "done"
    /\ sink' = IF in_attribute THEN Append(sink, ExitSpan) ELSE sink
    /\ UNCHANGED <<src, edition, tokens, in_attribute, in_macro, in_macro_nonterminal, calls,
                   earlier, out>>
    /\ UNCHANGED fvars

\* self.tokens.next() is None: the loop ends and highlight returns.
HighlightReturn ==
    /\ pc = "loop"
    /\ tokens = <<>>
    /\ pc' = "done"
    /\ UNCHANGED <<src, edition, tokens, in_attribute, in_macro, in_macro_nonterminal,
                   sink, calls, earlier, out>>
    /\ UNCHANGED fvars

Next == HighlightStep \/ HighlightReturn

Spec == Init /\ [][Next]_vars

\* highlight runs to its end once called: nothing suspends its loop.
FairSpec == Spec /\ WF_vars(Next)

(***************************************************************************)
(* write_code called several times in a row, each call on a source text of *)
(* its own.                                                                *)
(***************************************************************************)
\* The source texts of the calls: some leave a flag of the classifier set at their
\* end, the others behave differently under a set flag.
CallInputs ==
    {<<Punct("Pound", "#"), Punct("OpenBracket", "["), Ident("foo")>>,
     <<Punct("CloseBracket", "]")>>,
     <<Punct("Pound", "#"), Punct("OpenBracket", "["), Ident("x"), Punct("CloseBracket", "]")>>,
     <<Punct("Dollar", "$"), Ident("self")>>,
     <<Ident("x")>>,
     <<Ident("x"), Punct("Bang", "!")>>}

InitCalls ==
    /\ Init
    /\ src \in CallInputs

\* What write_code leaves behind when it returns.
Returned ==
    [src |-> src, edition |-> edition,
     flags |-> [in_attribute |-> in_attribute, in_macro |-> in_macro,
                in_macro_nonterminal |-> in_macro_nonterminal],
     sink |-> sink]

\* WriteCodeAgain handing the classifier of the call before to the next call.
WriteCodeAgainReusingClassifier ==
    /\ pc = "done"
    /\ Len(earlier) < MaxCalls - 1
    /\ earlier' = Append(earlier, Returned)
    /\ src' \in CallInputs
    /\ edition' \in Edition
    /\ tokens' = src'
    /\ sink' = <<>>
    /\ calls' = <<>>
    /\ pc' = "loop"
    /\ UNCHANGED <<in_attribute, in_macro, in_macro_nonterminal, out>>
    /\ UNCHANGED fvars

\* write_code returns and is called again: Classifier::new(&src, edition) builds a new
\* classifier for the new source text, and the events go to the new call's output.
WriteCodeAgain ==
    /\ pc = "done"
    /\ Len(earlier) < MaxCalls - 1
    /\ earlier' = Append(earlier, Returned)
    /\ src' \in CallInputs
    /\ edition' \in Edition
    /\ tokens' = src'
    /\ in_attribute' = FALSE
    /\ in_macro' = FALSE
    /\ in_macro_nonterminal' = FALSE
    /\ sink' = <<>>
    /\ calls' = <<>>
    /\ pc' = "loop"
    /\ UNCHANGED out
    /\ UNCHANGED fvars

NextCalls == HighlightStep \/ HighlightReturn \/ WriteCodeAgain

SpecCalls == InitCalls /\ [][NextCalls]_vars

(***************************************************************************)
(* The renderer: the callbacks write_code hands the events to.             *)
(***************************************************************************)
\* Class::as_html: the css class of each Class.
as_html(klass) ==
    CASE klass = "Comment" -> "comment"
      [] klass = "DocComment" -> "doccomment"
      [] klass = "Attribute" -> "attribute"
      [] klass = "KeyWord" -> "kw"
      [] klass = "RefKeyWord" -> "kw-2"
      [] klass = "Self_" -> "self"
      [] klass = "Op" -> "op"
      [] klass = "Macro" -> "macro"
      [] klass = "MacroNonTerminal" -> "macro-nonterminal"
      [] klass = "String" -> "string"
      [] klass = "Number" -> "number"
      [] klass = "Bool" -> "bool-val"
      [] klass = "Ident" -> "ident"
      [] klass = "Lifetime" -> "lifetime"
      [] klass = "PreludeTy" -> "prelude-ty"
      [] klass = "PreludeVal" -> "prelude-val"
      [] klass = "QuestionMark" -> "question-mark"

\* enter_span: the buffer w after the call.
enter_span(w, klass) == w \o "<span class=\"" \o as_html(klass) \o "\">"

\* exit_span: the buffer w after the call.
exit_span(w) == w \o "</span>"

\* string writing the class attribute without its quotes.
stringUnquoted(w, text, klass) ==
    IF klass = NoClass THEN w \o text
    ELSE w \o "<span class=" \o as_html(klass) \o ">" \o text \o "</span>"

\* string: the buffer w after the call; klass is NoClass for None.
string(w, text, klass) ==
    IF klass = NoClass THEN w \o text
    ELSE w \o "<span class=\"" \o as_html(klass) \o "\">" \o text \o "</span>"

\* The texts handed to the renderer.
RenderTexts == {"x", "]"}

\* The renderer about to receive its first event, the buffer empty.
InitRender ==
    /\ src = <<>>
    /\ edition = "2015"
    /\ tokens = <<>>
    /\ in_attribute = FALSE
    /\ in_macro = FALSE
    /\ in_macro_nonterminal = FALSE
    /\ sink = <<>>
    /\ calls = <<>>
    /\ pc = "render"
    /\ earlier = <<>>
    /\ out = ""
    /\ NoLowering

\* Highlight::Token { text, class } => string(out, Escape(text), class), the text
\* being what Escape has made of it.
RenderToken ==
    /\ pc = "render"
    /\ Len(sink) < MaxEvents
    /\ \E text \in RenderTexts, class \in Class \cup {NoClass} :
          /\ out' = string(out, text, class)
          /\ sink' = Append(sink, Token(text, class))
    /\ UNCHANGED <<src, edition, tokens, in_attribute, in_macro, in_macro_nonterminal,
                   calls, pc, earlier>>
    /\ UNCHANGED fvars

\* Highlight::EnterSpan { class } => enter_span(out, class)
RenderEnterSpan ==
    /\ pc = "render"
    /\ Len(sink) < MaxEvents
    /\ \E class \in Class :
          /\ out' = enter_span(out, class)
          /\ sink' = Append(sink, EnterSpan(class))
    /\ UNCHANGED <<src, edition, tokens, in_attribute, in_macro, in_macro_nonterminal,
                   calls, pc, earlier>>
    /\ UNCHANGED fvars

\* Highlight::ExitSpan => exit_span(out)
RenderExitSpan ==
    /\ pc = "render"
    /\ Len(sink) < MaxEvents
    /\ out' = exit_span(out)
    /\ sink' = Append(sink, ExitSpan)
    /\ UNCHANGED <<src, edition, tokens, in_attribute, in_macro, in_macro_nonterminal,
                   calls, pc, earlier>>
    /\ UNCHANGED fvars

NextRender == RenderToken \/ RenderEnterSpan \/ RenderExitSpan

RenderSpec == InitRender /\ [][NextRender]_vars

(***************************************************************************)
(* LoweringContext::lower_f_string_format_spec, section by section.        *)
(***************************************************************************)
\* lower_f_string_format_spec about to run on its argument.
InitLower ==
    /\ src = <<>>
    /\ edition = "2015"
    /\ tokens = <<>>
    /\ in_attribute = FALSE
    /\ in_macro = FALSE
    /\ in_macro_nonterminal = FALSE
    /\ sink = <<>>
    /\ calls = <<>>
    /\ earlier = <<>>
    /\ out = ""
    /\ pc = "lower"
    /\ format_spec \in FormatSpecs
    /\ cursor = <<>>
    /\ options = DefaultOptions
    /\ format_trait = None
    /\ integer = NoInteger
    /\ integers = <<>>

\* The local `parser`.
parser == Parser(format_spec[1], cursor)

\* No format spec: return (FormatTrait::Display, FormatOptions::default()).
LowerAbsent ==
    /\ pc = "lower"
    /\ format_spec = None
    /\ format_trait' = Some("Display")
    /\ options' = DefaultOptions
    /\ pc' = "returned"
    /\ UNCHANGED <<format_spec, cursor, integer, integers>>
    /\ UNCHANGED hvars

\* let mut options = FormatOptions::default(); let mut parser = Parser::new(...)
ParserNew ==
    /\ pc = "lower"
    /\ format_spec # None
    /\ options' = DefaultOptions
    /\ cursor' = format_spec[1]
    /\ pc' = "fill"
    /\ UNCHANGED <<format_spec, format_trait, integer, integers>>
    /\ UNCHANGED hvars

\* FillCharacter taking the first character when it is itself followed by anything.
FillCharacterWheneverFollowed ==
    /\ pc = "fill"
    /\ IF Len(cursor) >= 2
       THEN /\ options' = [options EXCEPT !.fill = Some(cursor[1])]
            /\ cursor' = Tail(cursor)
       ELSE UNCHANGED <<options, cursor>>
    /\ pc' = "alignment"
    /\ UNCHANGED <<format_spec, format_trait, integer, integers>>
    /\ UNCHANGED hvars

\* The fill character: the front character, if the one after it is an alignment.
FillCharacter ==
    /\ pc = "fill"
    /\ IF cursor # <<>> /\ Len(cursor) >= 2 /\ cursor[2] \in {">", "<", "^"}
       THEN /\ options' = [options EXCEPT !.fill = Some(cursor[1])]
            /\ cursor' = Tail(cursor)
       ELSE UNCHANGED <<options, cursor>>
    /\ pc' = "alignment"
    /\ UNCHANGED <<format_spec, format_trait, integer, integers>>
    /\ UNCHANGED hvars

\* Alignment
Alignment ==
    /\ pc = "alignment"
    /\ LET left == consume(parser, "<")
           right == consume(left.parser, ">")
           center == consume(right.parser, "^")
       IN  IF left.ok
           THEN /\ options' = [options EXCEPT !.alignment = Some("Left")]
                /\ cursor' = left.parser.cursor
           ELSE IF right.ok
           THEN /\ options' = [options EXCEPT !.alignment = Some("Right")]
                /\ cursor' = right.parser.cursor
           ELSE IF center.ok
           THEN /\ options' = [options EXCEPT !.alignment = Some("Center")]
                /\ cursor' = center.parser.cursor
           ELSE UNCHANGED <<options, cursor>>
    /\ pc' = "sign"
    /\ UNCHANGED <<format_spec, format_trait, integer, integers>>
    /\ UNCHANGED hvars

\* Sign flags
SignFlags ==
    /\ pc = "sign"
    /\ LET plus == consume(parser, "+")
           minus == consume(plus.parser, "-")
       IN  IF plus.ok
           THEN /\ options' = [options EXCEPT !.sign = Some("Plus")]
                /\ cursor' = plus.parser.cursor
           ELSE IF minus.ok
           THEN /\ options' = [options EXCEPT !.sign = Some("Minus")]
                /\ cursor' = minus.parser.cursor
           ELSE UNCHANGED <<options, cursor>>
    /\ pc' = "alternate"
    /\ UNCHANGED <<format_spec, format_trait, integer, integers>>
    /\ UNCHANGED hvars

\* Alternate marker
AlternateMarker ==
    /\ pc = "alternate"
    /\ LET pound == consume(parser, "#")
       IN  /\ options' = IF pound.ok THEN [options EXCEPT !.alternate = TRUE] ELSE options
           /\ cursor' = pound.parser.cursor
    /\ pc' = "zero_pad"
    /\ UNCHANGED <<format_spec, format_trait, integer, integers>>
    /\ UNCHANGED hvars

\* The `0` flag, and the panic on a `$` after it; then the call of consume_integer
\* for the width.
ZeroPad ==
    /\ pc = "zero_pad"
    /\ LET zero == consume(parser, "0")
           dollar == consume_pos(zero.parser, "$")
       IN  IF zero.ok /\ dollar.pos # None
           THEN /\ options' = [options EXCEPT !.zero_pad = TRUE]
                /\ cursor' = dollar.parser.cursor
                /\ pc' = "panic"
                /\ UNCHANGED integer
           ELSE /\ options' = IF zero.ok THEN [options EXCEPT !.zero_pad = TRUE] ELSE options
                /\ cursor' = zero.parser.cursor
                /\ integer' = IntegerLocals(zero.parser.cursor)
                /\ pc' = "width"
    /\ UNCHANGED <<format_spec, format_trait, integers>>
    /\ UNCHANGED hvars
\* ConsumeIntegerLoop noting only the overflow of the digit at hand.
ConsumeIntegerLoopForgetsOverflow ==
    /\ pc \in {"width", "precision"}
    /\ cursor # <<>>
    /\ to_digit(Head(cursor)) # None
    /\ LET mul == overflowing_mul(integer.cur, 10)
           add == overflowing_add(mul.value, to_digit(Head(cursor))[1])
       IN  integer' = [integer EXCEPT !.overflow = mul.overflow \/ add.overflow,
                                      !.cur = add.value,
                                      !.found = TRUE]
    /\ cursor' = Tail(cursor)
    /\ UNCHANGED <<format_spec, options, format_trait, integers, pc>>
    /\ UNCHANGED hvars

\* consume_integer, one iteration of its loop: the front character is a digit.
ConsumeIntegerLoop ==
    /\ pc \in {"width", "precision"}
    /\ cursor # <<>>
    /\ to_digit(Head(cursor)) # None
    /\ integer' = consume_digit(integer, to_digit(Head(cursor))[1])
    /\ cursor' = Tail(cursor)
    /\ UNCHANGED <<format_spec, options, format_trait, integers, pc>>
    /\ UNCHANGED hvars

\* consume_integer, after its loop: panic!("Overflow") or found.then_some(cur), and
\* what the caller does with the result (the width at 123-125, the precision at 133).
ConsumeIntegerReturn ==
    /\ pc \in {"width", "precision"}
    /\ IF cursor = <<>> THEN TRUE ELSE to_digit(Head(cursor)) = None
    /\ LET value == IF integer.found THEN Some(integer.cur) ELSE None
       IN  IF integer.overflow
           THEN /\ pc' = "panic"
                /\ integers' = Append(integers, [start |-> integer.start, end |-> cursor,
                                                  cur |-> integer.cur,
                                                  panicked |-> TRUE, value |-> None])
                /\ UNCHANGED options
           ELSE /\ integers' = Append(integers, [start |-> integer.start, end |-> cursor,
                                                  cur |-> integer.cur,
                                                  panicked |-> FALSE, value |-> value])
                /\ IF pc = "width"
                   THEN /\ options' = IF value # None
                                      THEN [options EXCEPT !.width = Some(Literal(value[1]))]
                                      ELSE options
                        /\ pc' = "dot"
                   ELSE /\ options' = [options EXCEPT
                                          !.precision = IF value # None
                                                        THEN Some(Literal(value[1]))
                                                        ELSE None]
                        /\ pc' = "trait"
    /\ integer' = NoInteger
    /\ UNCHANGED <<format_spec, cursor, format_trait>>
    /\ UNCHANGED hvars

\* The `.` of a precision: a panic on `*`, else the call of consume_integer.
Precision ==
    /\ pc = "dot"
    /\ LET dot == consume_pos(parser, ".")
           star == consume(dot.parser, "*")
       IN  IF dot.pos = None
           THEN /\ pc' = "trait"
                /\ UNCHANGED <<cursor, integer>>
           ELSE IF star.ok
           THEN /\ pc' = "panic"
                /\ cursor' = star.parser.cursor
                /\ UNCHANGED integer
           ELSE /\ pc' = "precision"
                /\ cursor' = dot.parser.cursor
                /\ integer' = IntegerLocals(dot.parser.cursor)
    /\ UNCHANGED <<format_spec, options, format_trait, integers>>
    /\ UNCHANGED hvars

\* The match on the last character taken with cursor.next().
TypeOf(c) ==
    CASE c = "o" -> Some("Octal")
      [] c = "x" -> Some("LowerHex")
      [] c = "X" -> Some("UpperHex")
      [] c = "p" -> Some("Pointer")
      [] c = "b" -> Some("Binary")
      [] c = "e" -> Some("LowerExp")
      [] c = "E" -> Some("UpperExp")
      [] OTHER -> None

\* Optional radix followed by the actual format specifier, and the return.
FormatTrait ==
    /\ pc = "trait"
    /\ LET lower == consume(parser, "x")
           lowerDebug == consume(lower.parser, "?")
           upper == consume(lower.parser, "X")
           upperDebug == consume(upper.parser, "?")
           debug == consume(upper.parser, "?")
       IN  IF lower.ok
           THEN /\ cursor' = lowerDebug.parser.cursor
                /\ options' = IF lowerDebug.ok THEN [options EXCEPT !.debug_hex = Some("Lower")]
                                               ELSE options
                /\ format_trait' = Some(IF lowerDebug.ok THEN "Debug" ELSE "LowerHex")
                /\ pc' = "returned"
           ELSE IF upper.ok
           THEN /\ cursor' = upperDebug.parser.cursor
                /\ options' = IF upperDebug.ok THEN [options EXCEPT !.debug_hex = Some("Upper")]
                                               ELSE options
                /\ format_trait' = Some(IF upperDebug.ok THEN "Debug" ELSE "UpperHex")
                /\ pc' = "returned"
           ELSE IF debug.ok
           THEN /\ cursor' = debug.parser.cursor
                /\ format_trait' = Some("Debug")
                /\ pc' = "returned"
                /\ UNCHANGED options
           ELSE IF cursor = <<>>
           THEN /\ format_trait' = Some("Display")
                /\ pc' = "returned"
                /\ UNCHANGED <<cursor, options>>
           ELSE /\ cursor' = Tail(cursor)
                /\ format_trait' = TypeOf(Head(cursor))
                /\ pc' = IF TypeOf(Head(cursor)) = None THEN "panic" ELSE "returned"
                /\ UNCHANGED options
    /\ UNCHANGED <<format_spec, integer, integers>>
    /\ UNCHANGED hvars

NextLower ==
    \/ LowerAbsent \/ ParserNew \/ FillCharacter \/ Alignment \/ SignFlags
    \/ AlternateMarker \/ ZeroPad \/ ConsumeIntegerLoop \/ ConsumeIntegerReturn
    \/ Precision \/ FormatTrait

LowerSpec == InitLower /\ [][NextLower]_vars

(***************************************************************************)
(* Observations of a run.                                                  *)
(***************************************************************************)
RECURSIVE Concat(_)
Concat(strings) ==
    IF strings = <<>> THEN "" ELSE Head(strings) \o Concat(Tail(strings))

\* The text the lexer cut the items from.
SourceText(items) == Concat([i \in 1..Len(items) |-> items[i].text])

\* What a renderer prints of the events, markup aside: the texts of the Token events.
TokenEvents(events) == SelectSeq(events, LAMBDA e : e.type = "Token")
EventText(events) == Concat([i \in 1..Len(TokenEvents(events)) |-> TokenEvents(events)[i].text])

Prefix(events, n) == SubSeq(events, 1, n)
Count(events, type) == Len(SelectSeq(events, LAMBDA e : e.type = type))
\* Spans entered and not yet left after the first n events.
Depth(events, n) == Count(Prefix(events, n), "EnterSpan") - Count(Prefix(events, n), "ExitSpan")

\* The event sequence a call of advance pushed.
Pushed(call) == SubSeq(sink, call.first, call.first + call.count - 1)

(***************************************************************************)
(* C1  Losslessness: the texts of the Token events emitted so far,         *)
(* followed by the texts of the tokens still in the stream, are the source *)
(* text; when highlight has returned the Token events alone spell the      *)
(* source text, the merged "&&" and "&=" and the literal "#", "!" of the   *)
(* inner-attribute step included.                                          *)
(***************************************************************************)
C1_Lossless ==
    /\ EventText(sink) \o SourceText(tokens) = SourceText(src)
    /\ pc = "done" => EventText(sink) = SourceText(src)

\* highlight has returned from `a && b`, having merged the two `&` into one event.
C1_Witness ==
    /\ pc = "done"
    /\ src = <<Ident("a"), Ws, Punct("And", "&"), Punct("And", "&"), Ws, Ident("b")>>
    /\ sink[3] = Token("&&", "Op")
    /\ Len(sink) = 5

\* The kind of the k-th token of the source, NoKind past its end.
KindAt(k) == IF k \in 1..Len(src) THEN src[k].kind ELSE NoKind
Calls == 1..Len(calls)
\* The current token of a call.
Current(c) == src[calls[c].at]
\* Whether the current token of the call opens an attribute: `#[` or `#![`.
OpensAttribute(c) ==
    /\ Current(c).kind = Kind("Pound")
    /\ \/ KindAt(calls[c].at + 1) = Kind("OpenBracket")
       \/ KindAt(calls[c].at + 1) = Kind("Bang") /\ KindAt(calls[c].at + 2) = Kind("OpenBracket")
\* The calls that opened an attribute while in_attribute was already set.
Reopenings == {c \in Calls : OpensAttribute(c) /\ calls[c].before.in_attribute}
\* Whether the items hold a complete `#[...]` or `#![...]`.
HasCompleteAttribute(items) ==
    \E i, j \in 1..Len(items) :
        /\ items[i].kind = Kind("Pound")
        /\ \/ i + 1 < j /\ items[i + 1].kind = Kind("OpenBracket")
           \/ /\ i + 2 < j
              /\ items[i + 1].kind = Kind("Bang")
              /\ items[i + 2].kind = Kind("OpenBracket")
        /\ items[j].kind = Kind("CloseBracket")

(***************************************************************************)
(* C2  Nesting depth is 0 or 1: after every prefix of the emitted events   *)
(* the EnterSpan events outnumber the ExitSpan events by 0 or by 1.        *)
(***************************************************************************)
C2_DepthAtMostOne ==
    \A n \in 0..Len(sink) : Depth(sink, n) \in {0, 1}

(***************************************************************************)
(* C3  Span balance.  As claimed: when highlight has returned on an input  *)
(* that holds a complete `#[...]` or `#![...]`, as many ExitSpan as        *)
(* EnterSpan events were emitted.  Stated here for the runs alone in which *)
(* no attribute was opened inside another, where C2 does not interfere: an *)
(* unclosed attribute after the complete one still breaks the balance.     *)
(***************************************************************************)
C3_BalancedIfComplete ==
    pc = "done" /\ HasCompleteAttribute(src) /\ Reopenings = {} =>
        Count(sink, "EnterSpan") = Count(sink, "ExitSpan")

(***************************************************************************)
(* C3  as amended: when highlight has returned, the EnterSpan events       *)
(* outnumber the ExitSpan events by the number of attributes opened while  *)
(* in_attribute was already set, plus one if in_attribute is still set;   *)
(* so the two numbers are equal exactly when the input ends outside an     *)
(* attribute and no attribute was opened inside another.                   *)
(***************************************************************************)
C3_BalanceAccount ==
    pc = "done" =>
        /\ Count(sink, "EnterSpan") - Count(sink, "ExitSpan")
              = Cardinality(Reopenings) + (IF in_attribute THEN 1 ELSE 0)
        /\ Count(sink, "EnterSpan") = Count(sink, "ExitSpan")
              <=> (~in_attribute /\ Reopenings = {})

\* A complete attribute, opened once and closed: the spans balance.
C3_Witness ==
    /\ pc = "done"
    /\ HasCompleteAttribute(src)
    /\ Reopenings = {}
    /\ ~in_attribute
    /\ Count(sink, "EnterSpan") = 1
    /\ Count(sink, "ExitSpan") = 1

\* The general part of C4: an outer attribute's span opens before its `#`, and the
\* `]` that ends an attribute comes right before the ExitSpan.
SpanEnclosesAttribute ==
    \A c \in Calls :
        /\ Current(c).kind = Kind("Pound") /\ KindAt(calls[c].at + 1) = Kind("OpenBracket")
              => Pushed(calls[c]) = <<EnterSpan("Attribute"), Token("#", NoClass)>>
        /\ Current(c).kind = Kind("CloseBracket") /\ calls[c].before.in_attribute
              => Pushed(calls[c]) = <<Token("]", NoClass), ExitSpan>>

(***************************************************************************)
(* C4  End-to-end attribute scenario, as claimed: `#[derive(Debug)]` emits *)
(* exactly EnterSpan(Attribute), Token("#"), Token("derive", Ident),       *)
(* Token("("), Token("Debug", Ident), Token(")"), Token("]"), ExitSpan;    *)
(* and an outer attribute's span encloses all its tokens.                  *)
(***************************************************************************)
C4_DeriveDebugAsClaimed ==
    pc = "done" =>
        /\ src = DeriveDebug =>
              sink = <<EnterSpan("Attribute"), Token("#", NoClass), Token("derive", "Ident"),
                       Token("(", NoClass), Token("Debug", "Ident"), Token(")", NoClass),
                       Token("]", NoClass), ExitSpan>>
        /\ SpanEnclosesAttribute

(***************************************************************************)
(* C4  as amended: `#[derive(Debug)]` emits exactly EnterSpan(Attribute),  *)
(* Token("#"), Token("["), Token("derive", Ident), Token("("),             *)
(* Token("Debug", Ident), Token(")"), Token("]"), ExitSpan -- the `[` is a *)
(* token of its own, emitted with no class after the `#`; and an outer     *)
(* attribute's span encloses all its tokens.                               *)
(***************************************************************************)
C4_DeriveDebug ==
    pc = "done" =>
        /\ src = DeriveDebug =>
              sink = <<EnterSpan("Attribute"), Token("#", NoClass), Token("[", NoClass),
                       Token("derive", "Ident"), Token("(", NoClass), Token("Debug", "Ident"),
                       Token(")", NoClass), Token("]", NoClass), ExitSpan>>
        /\ SpanEnclosesAttribute

\* highlight has returned from `#[derive(Debug)]`.
C4_Witness ==
    /\ pc = "done"
    /\ src = DeriveDebug
    /\ Len(calls) = 7
    /\ sink[Len(sink)] = ExitSpan

(***************************************************************************)
(* C5  Truncated attribute: when highlight has returned with in_attribute  *)
(* still set, the last EnterSpan is followed by no ExitSpan; for `#[foo`   *)
(* exactly one EnterSpan(Attribute) and no ExitSpan were emitted.          *)
(***************************************************************************)
C5_TruncatedAttribute ==
    pc = "done" =>
        /\ in_attribute =>
              \E i \in 1..Len(sink) :
                  /\ sink[i] = EnterSpan("Attribute")
                  /\ \A j \in (i + 1)..Len(sink) : sink[j].type = "Token"
        /\ src = <<Punct("Pound", "#"), Punct("OpenBracket", "["), Ident("foo")>> =>
              /\ Count(sink, "EnterSpan") = 1
              /\ Count(sink, "ExitSpan") = 0
              /\ sink[1] = EnterSpan("Attribute")

\* highlight has returned from `#[foo` with the attribute still open.
C5_Witness ==
    /\ pc = "done"
    /\ in_attribute
    /\ src = <<Punct("Pound", "#"), Punct("OpenBracket", "["), Ident("foo")>>
    /\ Len(sink) = 4

\* The call, if any, that follows call c.
HasNext(c) == c + 1 \in Calls
\* Whether the k-th token of the source was the current token of some call.
IsCurrent(k) == \E c \in Calls : calls[c].at = k

(***************************************************************************)
(* C6  Inner attribute opening: a step whose current token is `#`, with    *)
(* `!` next and `[` after it, takes both `#` and `!` from the stream, sets *)
(* in_attribute and pushes exactly EnterSpan(Attribute), Token("#"),       *)
(* Token("!"), both with no class; the `!` is not the current token of any *)
(* step, and the next step is on the `[` and pushes it with no class.      *)
(***************************************************************************)
C6_InnerAttributeOpening ==
    pc = "done" =>
        \A c \in Calls :
            /\ Current(c).kind = Kind("Pound")
            /\ KindAt(calls[c].at + 1) = Kind("Bang")
            /\ KindAt(calls[c].at + 2) = Kind("OpenBracket")
            => /\ calls[c].took = 2
               /\ calls[c].after.in_attribute
               /\ Pushed(calls[c]) =
                     <<EnterSpan("Attribute"), Token("#", NoClass), Token("!", NoClass)>>
               /\ ~IsCurrent(calls[c].at + 1)
               /\ HasNext(c)
               /\ calls[c + 1].at = calls[c].at + 2
               /\ Pushed(calls[c + 1]) = <<Token("[", NoClass)>>

\* highlight has returned from `#![x]`.
C6_Witness ==
    /\ pc = "done"
    /\ src = <<Punct("Pound", "#"), Punct("Bang", "!"), Punct("OpenBracket", "["), Ident("x"),
               Punct("CloseBracket", "]")>>
    /\ calls[1].took = 2
    /\ Len(sink) = 7

(***************************************************************************)
(* C7  Macro detection: every identifier or raw identifier directly        *)
(* followed by `!` is the current token of a step that emits it with class *)
(* Macro, whatever its text; the next step emits the `!` with class Macro  *)
(* and leaves in_macro false; `println!(x)` gives println:Macro, !:Macro,  *)
(* (:none, x:Ident, ):none.                                                *)
(***************************************************************************)
C7_MacroDetection ==
    pc = "done" =>
        /\ \A k \in 1..Len(src) :
              src[k].kind \in {Kind("Ident"), Kind("RawIdent")} /\ KindAt(k + 1) = Kind("Bang")
              => \E c \in Calls :
                    /\ calls[c].at = k
                    /\ Pushed(calls[c]) = <<Token(src[k].text, "Macro")>>
                    /\ HasNext(c)
                    /\ calls[c + 1].at = k + 1
                    /\ Pushed(calls[c + 1]) = <<Token("!", "Macro")>>
                    /\ ~calls[c + 1].after.in_macro
        /\ src = <<Ident("println"), Punct("Bang", "!"), Punct("OpenParen", "("), Ident("x"),
                   Punct("CloseParen", ")")>>
              => sink = <<Token("println", "Macro"), Token("!", "Macro"), Token("(", NoClass),
                          Token("x", "Ident"), Token(")", NoClass)>>

\* highlight has returned from `$self!x`: a macro name that is `self`, after a `$`.
C7_Witness ==
    /\ pc = "done"
    /\ src = <<Punct("Dollar", "$"), Ident("self"), Punct("Bang", "!")>>
    /\ sink[2] = Token("self", "Macro")
    /\ sink[3] = Token("!", "Macro")

(***************************************************************************)
(* C8  Macro nonterminal tagging: every `$` directly followed by an        *)
(* identifier is emitted with class MacroNonTerminal, that identifier is   *)
(* emitted with class MacroNonTerminal whatever its text (`self`, `crate`, *)
(* prelude names, names followed by `!`), and in_macro_nonterminal is      *)
(* false once that identifier has been emitted.                            *)
(***************************************************************************)
C8_NonterminalTagged ==
    pc = "done" =>
        \A c \in Calls :
            Current(c).kind = Kind("Dollar") /\ KindAt(calls[c].at + 1) = Kind("Ident")
            => /\ Pushed(calls[c]) = <<Token("$", "MacroNonTerminal")>>
               /\ HasNext(c)
               /\ calls[c + 1].at = calls[c].at + 1
               /\ Pushed(calls[c + 1]) = <<Token(Current(c + 1).text, "MacroNonTerminal")>>
               /\ ~calls[c + 1].after.in_macro_nonterminal

(***************************************************************************)
(* C9  `*` / `&` disambiguation: a step on `*` emits it with class Op if   *)
(* the next token is whitespace and with class RefKeyWord otherwise, also  *)
(* when `*` ends the input; a step on `&` whose next token is neither `&`  *)
(* nor `=` does the same; every `*` is the current token of a step; and    *)
(* `a * b` gives Op, `*b` gives RefKeyWord, `&mut x` gives RefKeyWord.     *)
(***************************************************************************)
C9_StarAndDisambiguation ==
    pc = "done" =>
        /\ \A k \in 1..Len(src) : src[k].kind = Kind("Star") => IsCurrent(k)
        /\ \A c \in Calls :
              \/ Current(c).kind = Kind("Star")
              \/ /\ Current(c).kind = Kind("And")
                 /\ KindAt(calls[c].at + 1) \notin {Kind("And"), Kind("Eq")}
              => Pushed(calls[c]) =
                    <<Token(Current(c).text,
                            IF KindAt(calls[c].at + 1) = Kind("Whitespace")
                            THEN "Op" ELSE "RefKeyWord")>>
        /\ src = <<Ident("a"), Ws, Punct("Star", "*"), Ws, Ident("b")>>
              => sink[3] = Token("*", "Op")
        /\ src = <<Punct("Star", "*"), Ident("b")>> => sink[1] = Token("*", "RefKeyWord")
        /\ src = <<Punct("And", "&"), Ident("mut"), Ws, Ident("x")>>
              => sink[1] = Token("&", "RefKeyWord")

\* highlight has returned from `& *`: an `&` before a space, a `*` at the end.
C9_Witness ==
    /\ pc = "done"
    /\ src = <<Punct("And", "&"), Ws, Punct("Star", "*")>>
    /\ sink = <<Token("&", "Op"), Token(" ", NoClass), Token("*", "RefKeyWord")>>

(***************************************************************************)
(* C10  Combined operators: a step on `&` whose next token is `&` (resp.   *)
(* `=`) takes both tokens and pushes the one event Token("&&", Op) (resp.  *)
(* Token("&=", Op)); the second token is the current token of no step, and *)
(* the token after the pair, if any, is the current token of the next      *)
(* step; `&&&` gives "&&" and then "&".                                    *)
(***************************************************************************)
C10_CombinedOperators ==
    pc = "done" =>
        /\ \A c \in Calls :
              Current(c).kind = Kind("And") /\ KindAt(calls[c].at + 1) \in {Kind("And"), Kind("Eq")}
              => /\ calls[c].took = 2
                 /\ Pushed(calls[c]) =
                       <<Token(IF KindAt(calls[c].at + 1) = Kind("And") THEN "&&" ELSE "&=",
                               "Op")>>
                 /\ ~IsCurrent(calls[c].at + 1)
                 /\ calls[c].at + 2 <= Len(src)
                       => HasNext(c) /\ calls[c + 1].at = calls[c].at + 2
        /\ src = <<Punct("And", "&"), Punct("And", "&"), Punct("And", "&")>>
              => sink = <<Token("&&", "Op"), Token("&", "RefKeyWord")>>

\* highlight has returned from `&&&`.
C10_Witness ==
    /\ pc = "done"
    /\ src = <<Punct("And", "&"), Punct("And", "&"), Punct("And", "&")>>
    /\ Len(calls) = 2
    /\ calls[1].took = 2


\* The rows of the identifier table that name their texts, in the claimed order.
FixedRows ==
    <<[texts |-> {"ref", "mut"}, class |-> "RefKeyWord"],
      [texts |-> {"self", "Self"}, class |-> "Self_"],
      [texts |-> {"false", "true"}, class |-> "Bool"],
      [texts |-> {"Option", "Result"}, class |-> "PreludeTy"],
      [texts |-> {"Some", "None", "Ok", "Err"}, class |-> "PreludeVal"]>>
\* The rows whose texts hold the text.
RowsOf(text) == {i \in 1..Len(FixedRows) : text \in FixedRows[i].texts}

(***************************************************************************)
(* C11  Identifier table and its priority: a step on a (non-raw)           *)
(* identifier not followed by `!` emits it with the class of the first     *)
(* rule that matches, in the order {ref, mut} RefKeyWord; {self, Self}     *)
(* Self_; {false, true} Bool; {Option, Result} PreludeTy; {Some, None, Ok, *)
(* Err} PreludeVal; reserved under the edition KeyWord;                    *)
(* in_macro_nonterminal set MacroNonTerminal, clearing the flag; otherwise *)
(* Ident.  The first six rules apply whatever in_macro_nonterminal is and  *)
(* leave it as it was.                                                     *)
(***************************************************************************)
C11_IdentifierTable ==
    pc = "done" =>
        \A c \in Calls :
            Current(c).kind = Kind("Ident") /\ KindAt(calls[c].at + 1) # Kind("Bang")
            => LET text == Current(c).text
                   flag == calls[c].before.in_macro_nonterminal
                   first == CHOOSE i \in RowsOf(text) : \A j \in RowsOf(text) : i <= j
               IN  IF RowsOf(text) # {}
                   THEN /\ Pushed(calls[c]) = <<Token(text, FixedRows[first].class)>>
                        /\ calls[c].after.in_macro_nonterminal = flag
                   ELSE IF is_reserved(text, edition)
                   THEN /\ Pushed(calls[c]) = <<Token(text, "KeyWord")>>
                        /\ calls[c].after.in_macro_nonterminal = flag
                   ELSE IF flag
                   THEN /\ Pushed(calls[c]) = <<Token(text, "MacroNonTerminal")>>
                        /\ ~calls[c].after.in_macro_nonterminal
                   ELSE /\ Pushed(calls[c]) = <<Token(text, "Ident")>>
                        /\ ~calls[c].after.in_macro_nonterminal

\* highlight has returned from `$async` under edition 2018: the word is reserved there,
\* is emitted as a keyword, and the flag the `$` set is still set.
C11_Witness ==
    /\ pc = "done"
    /\ edition = "2018"
    /\ src = <<Punct("Dollar", "$"), Ident("async")>>
    /\ sink = <<Token("$", "MacroNonTerminal"), Token("async", "KeyWord")>>
    /\ in_macro_nonterminal


\* `#!x`, lexed.
PoundBangX == <<Punct("Pound", "#"), Punct("Bang", "!"), Ident("x")>>

(***************************************************************************)
(* C12  `#` not opening an attribute, as claimed: a step on `#` that is    *)
(* followed neither by `[` nor by `!` and `[` pushes only Token("#") with  *)
(* no class, takes no further token, pushes no EnterSpan and leaves        *)
(* in_attribute as it was; in `#!x` the `!` is the current token of the    *)
(* next step and is emitted with class Op.                                 *)
(***************************************************************************)
C12_PoundAloneAsClaimed ==
    pc = "done" =>
        /\ \A c \in Calls :
              Current(c).kind = Kind("Pound") /\ ~OpensAttribute(c)
              => /\ Pushed(calls[c]) = <<Token("#", NoClass)>>
                 /\ calls[c].took = 1
                 /\ calls[c].after.in_attribute = calls[c].before.in_attribute
        /\ src = PoundBangX
              => sink = <<Token("#", NoClass), Token("!", "Op"), Token("x", "Ident")>>

(***************************************************************************)
(* C12  as amended: a step on `#` that is followed neither by `[` nor by   *)
(* `!` pushes only Token("#") with no class and takes no further token; a  *)
(* step on `#` that is followed by `!` but not by `!` and `[` takes the    *)
(* `!` as well and pushes Token("#"), Token("!"), both with no class, so   *)
(* the `!` is the current token of no step; either way no EnterSpan is     *)
(* pushed and in_attribute stays as it was; `#!x` gives #:none, !:none,    *)
(* x:Ident.                                                                *)
(***************************************************************************)
C12_PoundAlone ==
    pc = "done" =>
        /\ \A c \in Calls :
              Current(c).kind = Kind("Pound") /\ ~OpensAttribute(c)
              => /\ calls[c].after.in_attribute = calls[c].before.in_attribute
                 /\ IF KindAt(calls[c].at + 1) = Kind("Bang")
                    THEN /\ Pushed(calls[c]) = <<Token("#", NoClass), Token("!", NoClass)>>
                         /\ calls[c].took = 2
                         /\ ~IsCurrent(calls[c].at + 1)
                    ELSE /\ Pushed(calls[c]) = <<Token("#", NoClass)>>
                         /\ calls[c].took = 1
        /\ src = PoundBangX
              => sink = <<Token("#", NoClass), Token("!", NoClass), Token("x", "Ident")>>

\* highlight has returned from `#!x`, the `#` and the `!` taken in one step.
C12_Witness ==
    /\ pc = "done"
    /\ src = PoundBangX
    /\ Len(calls) = 2
    /\ calls[1].took = 2
    /\ ~in_attribute


(***************************************************************************)
(* C13  Totality and termination: on every input, whatever the kinds of    *)
(* its tokens and whatever follows each, highlight never panics and        *)
(* eventually returns, with the stream exhausted; every step takes at      *)
(* least one token from the stream and pushes at least one Token event;    *)
(* and a token of a kind with no rule of its own (the kinds of the         *)
(* miscellaneous arm, Unknown among them) is pushed with no class.         *)
(***************************************************************************)
C13_TotalAndTerminates ==
    /\ <>(pc = "done")
    /\ [](pc # "panic")
    /\ [](pc = "done" => tokens = <<>>)
    /\ [](\A c \in Calls :
             /\ calls[c].took >= 1
             /\ \E i \in 1..Len(Pushed(calls[c])) : Pushed(calls[c])[i].type = "Token"
             /\ Current(c).kind.name \in MiscKinds
                   => Pushed(calls[c]) = <<Token(Current(c).text, NoClass)>>)

\* highlight has returned from an input of two unknown tokens.
C13_Witness ==
    /\ pc = "done"
    /\ src = <<UnknownItem, UnknownItem>>
    /\ sink = <<Token(UnknownItem.text, NoClass), Token(UnknownItem.text, NoClass)>>


(***************************************************************************)
(* C14  Fresh state per invocation: every call starts with in_attribute,   *)
(* in_macro and in_macro_nonterminal all false, whatever flags the call    *)
(* before ended with; two calls on the same tokens and edition push the    *)
(* same events, whatever ran between them; and `]` highlighted in a call   *)
(* after `#[foo` pushes Token("]") with no class and no ExitSpan.          *)
(***************************************************************************)
C14_FreshPerInvocation ==
    /\ pc = "loop" /\ calls = <<>>
          => ~in_attribute /\ ~in_macro /\ ~in_macro_nonterminal
    /\ \A c \in Calls : c = 1 => calls[c].before = [in_attribute |-> FALSE, in_macro |-> FALSE,
                                                   in_macro_nonterminal |-> FALSE]
    /\ \A i \in 1..Len(earlier) :
          /\ pc = "done" /\ earlier[i].src = src /\ earlier[i].edition = edition
                => earlier[i].sink = sink
          /\ \A j \in 1..Len(earlier) :
                earlier[i].src = earlier[j].src /\ earlier[i].edition = earlier[j].edition
                   => earlier[i].sink = earlier[j].sink
    /\ (/\ pc = "done"
        /\ earlier # <<>>
        /\ earlier[Len(earlier)].src = <<Punct("Pound", "#"), Punct("OpenBracket", "["),
                                         Ident("foo")>>
        /\ src = <<Punct("CloseBracket", "]")>>)
          => sink = <<Token("]", NoClass)>>

\* The third call has returned from `]`; the first was on `]` too and the one between
\* them, on `#[foo`, ended with in_attribute set.
C14_Witness ==
    /\ pc = "done"
    /\ Len(earlier) = 2
    /\ earlier[1].src = <<Punct("CloseBracket", "]")>>
    /\ earlier[2].src = <<Punct("Pound", "#"), Punct("OpenBracket", "["), Ident("foo")>>
    /\ earlier[2].flags.in_attribute
    /\ src = <<Punct("CloseBracket", "]")>>
    /\ earlier[1].edition = edition
    /\ sink = <<Token("]", NoClass)>>


(***************************************************************************)
(* C15  Whitespace neutrality: every whitespace token, whatever the flags  *)
(* are when its turn comes, is the current token of a step that takes it   *)
(* alone, pushes exactly one event, Token(its text) with no class, and     *)
(* leaves the flags as they were; no whitespace is taken by another        *)
(* token's step.                                                           *)
(***************************************************************************)
C15_WhitespaceNeutral ==
    /\ \A c \in Calls :
          Current(c).kind.name = "Whitespace"
             => /\ Pushed(calls[c]) = <<Token(Current(c).text, NoClass)>>
                /\ calls[c].took = 1
                /\ calls[c].after = calls[c].before
    /\ pc = "done"
          => \A k \in 1..Len(src) : src[k].kind.name = "Whitespace" => IsCurrent(k)

\* highlight has returned from `#[ `: the blank came up with in_attribute set.
C15_Witness ==
    /\ pc = "done"
    /\ src = <<Punct("Pound", "#"), Punct("OpenBracket", "["), Ws>>
    /\ calls[3].before.in_attribute
    /\ Current(3) = Ws
    /\ sink[Len(sink)] = Token(" ", NoClass)


\* The events with every classified Token written out as a span around the bare token.
RECURSIVE AsSpans(_)
AsSpans(events) ==
    IF events = <<>> THEN <<>>
    ELSE LET e == Head(events)
         IN  (IF e.type = "Token" /\ e.class # NoClass
              THEN <<EnterSpan(e.class), Token(e.text, NoClass), ExitSpan>>
              ELSE <<e>>) \o AsSpans(Tail(events))

\* The buffer w after the events have gone through the callbacks, in order.
RECURSIVE Rendered(_, _)
Rendered(w, events) ==
    IF events = <<>> THEN w
    ELSE LET e == Head(events)
         IN  Rendered(CASE e.type = "Token" -> string(w, e.text, e.class)
                        [] e.type = "EnterSpan" -> enter_span(w, e.class)
                        [] e.type = "ExitSpan" -> exit_span(w),
                      Tail(events))

(***************************************************************************)
(* C16  Renderer equivalence: for every text and class, and whatever the   *)
(* buffer holds, string(text, Some(class)) writes what enter_span(class),  *)
(* string(text, None), exit_span() write; so the buffer after any events   *)
(* is the buffer after the same events with each classified Token written  *)
(* as a span around the bare token.                                        *)
(***************************************************************************)
C16_RendererEquivalence ==
    /\ \A text \in RenderTexts, class \in Class :
          string(out, text, class)
             = exit_span(string(enter_span(out, class), text, NoClass))
    /\ pc = "render" => out = Rendered("", AsSpans(sink))

\* A keyword and then an operator have been rendered, each by the shorthand.
C16_Witness ==
    /\ pc = "render"
    /\ sink = <<Token("x", "KeyWord"), Token("]", "Op")>>
    /\ out = "<span class=\"kw\">x</span><span class=\"op\">]</span>"


(***************************************************************************)
(* C17  in_attribute tracks the open span: between steps, in_attribute is  *)
(* true if and only if more EnterSpan events than ExitSpan events have     *)
(* been pushed so far.                                                     *)
(***************************************************************************)
C17_FlagTracksSpan ==
    in_attribute <=> Count(sink, "EnterSpan") > Count(sink, "ExitSpan")


(***************************************************************************)
(* C18  No unmatched close: in every prefix of the events pushed so far    *)
(* there are at most as many ExitSpan as EnterSpan; a step on `]` with     *)
(* in_attribute false pushes only Token("]") with no class; and every      *)
(* ExitSpan comes right after a Token("]") with no class.                  *)
(***************************************************************************)
C18_NoUnmatchedClose ==
    /\ \A n \in 0..Len(sink) : Depth(sink, n) >= 0
    /\ \A c \in Calls :
          Current(c).kind = Kind("CloseBracket") /\ ~calls[c].before.in_attribute
             => Pushed(calls[c]) = <<Token("]", NoClass)>>
    /\ \A i \in 1..Len(sink) :
          sink[i] = ExitSpan => i > 1 /\ sink[i - 1] = Token("]", NoClass)

\* highlight has returned from `]#[]`: the first `]` closed nothing, the second closed
\* the attribute.
C18_Witness ==
    /\ pc = "done"
    /\ src = <<Punct("CloseBracket", "]"), Punct("Pound", "#"), Punct("OpenBracket", "["),
               Punct("CloseBracket", "]")>>
    /\ sink = <<Token("]", NoClass), EnterSpan("Attribute"), Token("#", NoClass),
                Token("[", NoClass), Token("]", NoClass), ExitSpan>>


\* `$crate::foo`, lexed.
DollarCrateFoo ==
    <<Punct("Dollar", "$"), Ident("crate"), Punct("Colon", ":"), Punct("Colon", ":"),
      Ident("foo")>>

(***************************************************************************)
(* C19  MacroNonTerminal only after `$`: every step on an identifier that  *)
(* pushes a Token with class MacroNonTerminal is on an identifier directly *)
(* after a `$` in the source; in_macro_nonterminal is not set              *)
(* after the step on the identifier that directly follows a `$`; and in    *)
(* `$crate::foo` the `foo` is pushed with class Ident.                     *)
(***************************************************************************)
C19_NonterminalOnlyAfterDollar ==
    /\ \A c \in Calls :
          /\ Current(c).kind.name \in {"Ident", "RawIdent"}
                /\ (\E i \in 1..Len(Pushed(calls[c])) :
                       Pushed(calls[c])[i].class = "MacroNonTerminal")
                => KindAt(calls[c].at - 1) = Kind("Dollar")
          /\ Current(c).kind.name \in {"Ident", "RawIdent"}
                /\ KindAt(calls[c].at - 1) = Kind("Dollar")
                => ~calls[c].after.in_macro_nonterminal
    /\ pc = "done" /\ src = DollarCrateFoo
          => sink[Len(sink)] = Token("foo", "Ident")


(***************************************************************************)
(* C20  in_macro lives for exactly one step: a step that starts with       *)
(* in_macro set is on a `!`, comes right after the step on the identifier  *)
(* just before that `!`, which set the flag, and ends with in_macro clear; *)
(* between steps in_macro is set only while that `!` is the next token of  *)
(* the stream; so a step on any other token starts with in_macro clear,    *)
(* and in_macro is clear when highlight returns.                           *)
(***************************************************************************)
C20_InMacroOneStep ==
    /\ \A c \in Calls :
          /\ calls[c].before.in_macro
                => /\ Current(c).kind = Kind("Bang")
                   /\ c > 1
                   /\ calls[c - 1].at = calls[c].at - 1
                   /\ Current(c - 1).kind.name \in {"Ident", "RawIdent"}
                   /\ ~calls[c - 1].before.in_macro
                   /\ calls[c - 1].after.in_macro
                   /\ ~calls[c].after.in_macro
          /\ Current(c).kind # Kind("Bang") => ~calls[c].before.in_macro
    /\ in_macro => tokens # <<>> /\ Head(tokens).kind = Kind("Bang")
    /\ pc = "done" => ~in_macro

\* highlight has returned from `x!x`: the step on `!` started with in_macro set, the
\* step on the second `x` did not.
C20_Witness ==
    /\ pc = "done"
    /\ src = <<Ident("x"), Punct("Bang", "!"), Ident("x")>>
    /\ calls[2].before.in_macro
    /\ ~calls[2].after.in_macro
    /\ ~calls[3].before.in_macro
    /\ ~in_macro


(***************************************************************************)
(* C21  Peek does not consume: the stream is always the part of the source *)
(* behind the tokens taken so far; the steps take the source tokens in     *)
(* order, each exactly once, none skipped; a step takes one token, or two  *)
(* when it is on `&` before `&` or `=`, or on `#` before `!`; a step that  *)
(* only looks at the next token leaves it to the next step; and when       *)
(* highlight returns every token has been taken.                           *)
(***************************************************************************)
C21_PeekDoesNotConsume ==
    /\ tokens = SubSeq(src, Len(src) - Len(tokens) + 1, Len(src))
    /\ \A c \in Calls :
          /\ calls[c].at = (IF c = 1 THEN 1 ELSE calls[c - 1].at + calls[c - 1].took)
          /\ calls[c].took \in {1, 2}
          /\ calls[c].took = 2
                <=> \/ Current(c).kind = Kind("And")
                       /\ KindAt(calls[c].at + 1) \in {Kind("And"), Kind("Eq")}
                    \/ Current(c).kind = Kind("Pound")
                       /\ KindAt(calls[c].at + 1) = Kind("Bang")
    /\ calls # <<>>
          => Len(src) - Len(tokens) = calls[Len(calls)].at + calls[Len(calls)].took - 1
    /\ pc = "done" => tokens = <<>>

\* highlight has returned from `*x#`: the step on `*` looked at the `x` and left it to
\* a step of its own.
C21_Witness ==
    /\ pc = "done"
    /\ src = <<Punct("Star", "*"), Ident("x"), Punct("Pound", "#")>>
    /\ Len(calls) = 3
    /\ calls[1].took = 1
    /\ calls[2].at = 2
    /\ sink[1] = Token("*", "RefKeyWord")


\* What the lowering returns for a spec of an alignment and the width 5, with the
\* fill given.
AlignedFive(fill, alignment) ==
    [DefaultOptions EXCEPT !.fill = fill, !.alignment = Some(alignment),
                           !.width = Some(Literal(5))]

(***************************************************************************)
(* C22  Format-spec fill and alignment: once past its fill section the     *)
(* lowering has taken the first character of the spec as the fill exactly  *)
(* when the second character is `<`, `>` or `^`; once past its alignment   *)
(* section it has read the alignment from the character after the fill     *)
(* (`<` Left, `>` Right, `^` Center, else none); `-<5` returns Display     *)
(* with fill '-', Left, width 5 and nothing else set, `<5`, `^5`, `>5`     *)
(* return Display with no fill, Left, Center, Right and width 5; and no    *)
(* spec returns Display with the default options.                          *)
(***************************************************************************)
C22_FillAndAlignment ==
    /\ format_spec # None /\ pc \notin {"lower", "fill"}
          => LET s == format_spec[1]
                 filled == Len(s) >= 2 /\ s[2] \in {"<", ">", "^"}
                 rest == IF filled THEN Tail(s) ELSE s
             IN  /\ options.fill = (IF filled THEN Some(s[1]) ELSE None)
                 /\ pc # "alignment"
                       => options.alignment =
                             (IF rest = <<>> THEN None
                              ELSE CASE rest[1] = "<" -> Some("Left")
                                     [] rest[1] = ">" -> Some("Right")
                                     [] rest[1] = "^" -> Some("Center")
                                     [] OTHER -> None)
    /\ pc \in {"returned", "panic"} /\ format_spec = Some(<<"-", "<", "5">>)
          => /\ pc = "returned"
             /\ format_trait = Some("Display")
             /\ options = AlignedFive(Some("-"), "Left")
    /\ pc \in {"returned", "panic"} /\ format_spec = Some(<<"<", "5">>)
          => /\ pc = "returned"
             /\ format_trait = Some("Display")
             /\ options = AlignedFive(None, "Left")
    /\ pc \in {"returned", "panic"} /\ format_spec = Some(<<"^", "5">>)
          => /\ pc = "returned"
             /\ format_trait = Some("Display")
             /\ options = AlignedFive(None, "Center")
    /\ pc \in {"returned", "panic"} /\ format_spec = Some(<<">", "5">>)
          => /\ pc = "returned"
             /\ format_trait = Some("Display")
             /\ options = AlignedFive(None, "Right")
    /\ format_spec = None /\ pc # "lower"
          => /\ pc = "returned"
             /\ format_trait = Some("Display")
             /\ options = DefaultOptions

\* The lowering has returned from `-<5`.
C22_Witness ==
    /\ pc = "returned"
    /\ format_spec = Some(<<"-", "<", "5">>)
    /\ options.fill = Some("-")
    /\ options.alignment = Some("Left")
    /\ options.width = Some(Literal(5))
    /\ cursor = <<>>


\* The length of the run of decimal digits the characters start with.
RECURSIVE DigitRun(_)
DigitRun(chars) ==
    IF chars = <<>> THEN 0
    ELSE IF to_digit(Head(chars)) = None THEN 0
    ELSE 1 + DigitRun(Tail(chars))

\* The number the digits write in base ten, as a mathematical integer.
RECURSIVE DecimalValue(_)
DecimalValue(digits) ==
    IF digits = <<>> THEN 0
    ELSE 10 * DecimalValue(SubSeq(digits, 1, Len(digits) - 1)) + to_digit(digits[Len(digits)])[1]

(***************************************************************************)
(* C23  consume_integer: called on a cursor whose front character is no    *)
(* decimal digit (or on an empty one) it returns None with the cursor as   *)
(* it was; otherwise it takes the longest run of decimal digits and        *)
(* nothing more, and returns Some of the number they write if that number  *)
(* fits usize, and panics if it does not; it never returns a value other   *)
(* than that number, whatever the accumulator holds at the end; while it   *)
(* runs it has taken digits only.                                          *)
(***************************************************************************)
C23_ConsumeInteger ==
    /\ \A k \in 1..Len(integers) :
          LET r == integers[k]
              n == DigitRun(r.start)
              digits == SubSeq(r.start, 1, n)
          IN  /\ r.end = SubSeq(r.start, n + 1, Len(r.start))
              /\ n = 0 => ~r.panicked /\ r.value = None /\ r.end = r.start
              /\ n > 0 /\ DecimalValue(digits) < UsizeRange
                    => ~r.panicked /\ r.value = Some(DecimalValue(digits))
              /\ n > 0 /\ DecimalValue(digits) >= UsizeRange => r.panicked
              /\ r.panicked => pc = "panic" /\ k = Len(integers) /\ format_trait = None
    /\ integer.running
          => \E n \in 0..DigitRun(integer.start) :
                /\ cursor = SubSeq(integer.start, n + 1, Len(integer.start))
                /\ integer.found <=> n > 0
                /\ integer.cur = DecimalValue(SubSeq(integer.start, 1, n)) % UsizeRange
                /\ integer.overflow
                      <=> \E m \in 1..n :
                             DecimalValue(SubSeq(integer.start, 1, m)) >= UsizeRange

\* consume_integer has panicked on `160`, its accumulator wrapped back into range by
\* the last digit.
C23_Witness ==
    /\ pc = "panic"
    /\ format_spec = Some(<<"1", "6", "0">>)
    /\ Len(integers) = 1
    /\ integers[1].panicked
    /\ integers[1].cur = 0
    /\ integers[1].end = <<>>

====
